---- MODULE Spec2Model ----
(***************************************************************************)
(* Model of build_database.py: a one-shot batch job that builds the five   *)
(* tables drinks, glasses, bars, inventory and orders with pandas and      *)
(* appends them to an SQLite store.                                        *)
(*                                                                         *)
(* Strings are sequences of code points, so that str.lower, str.split,     *)
(* str.replace, int() and the ordering used by sort_values are computed    *)
(* rather than assumed.  A DataFrame is a record                           *)
(*   [columns : sequence of column names, index : row labels,              *)
(*    iname : name of the row index ("" for None), rows : sequence of      *)
(*    functions column name -> cell].                                      *)
(***************************************************************************)
EXTENDS Integers, Sequences, FiniteSets, TLC

VARIABLES pc, letter, requests, df_list, df_drinks, df_glasses, df_bars,
          df_inventory, df_budapest, df_london, df_ny, df_orders,
          error, store, steps, heap, u

vars == <<pc, letter, requests, df_list, df_drinks, df_glasses, df_bars,
          df_inventory, df_budapest, df_london, df_ny, df_orders,
          error, store, steps, heap, u>>

runVars == <<pc, letter, requests, df_list, df_drinks, df_glasses, df_bars,
             df_inventory, df_budapest, df_london, df_ny, df_orders,
             error, store, steps>>

unitVars == <<heap, u>>

----------------------------------------------------------------------------
(* Bounds of the model *)

\* most catalog entries over all 26 letters together
MaxDrinks == 2
\* most data rows of the inventory CSV
MaxInv == 1
\* most data rows of the three order CSVs together
MaxOrd == 1
\* longest stock string given to the stock parser on its own
MaxStockLen == 4
\* most rows of a table given to create_index on its own
MaxIdxRows == 2

----------------------------------------------------------------------------
(* Strings *)

Range(s) == {s[i] : i \in DOMAIN s}

\* str.lower() on one ASCII character
LowerChar(c) == IF c >= 65 /\ c <= 90 THEN c + 32 ELSE c

\* str.lower()
Lower(s) == [i \in DOMAIN s |-> LowerChar(s[i])]

\* Python's < on str: lexicographic by code point
RECURSIVE StrLess(_, _)
StrLess(a, b) ==
    IF b = <<>> THEN FALSE
    ELSE IF a = <<>> THEN TRUE
    ELSE IF a[1] # b[1] THEN a[1] < b[1]
    ELSE StrLess(Tail(a), Tail(b))

\* whether s starts with p
StartsWith(s, p) == Len(s) >= Len(p) /\ SubSeq(s, 1, Len(p)) = p

\* str.replace(old, new): every non-overlapping occurrence, left to right
RECURSIVE Replace(_, _, _)
Replace(s, old, new) ==
    IF s = <<>> THEN <<>>
    ELSE IF old # <<>> /\ StartsWith(s, old)
         THEN new \o Replace(SubSeq(s, Len(old) + 1, Len(s)), old, new)
         ELSE <<s[1]>> \o Replace(Tail(s), old, new)

\* x.split(" ")[0]: what precedes the first space character, or all of x
RECURSIVE SplitFirst(_)
SplitFirst(s) ==
    IF s = <<>> THEN <<>>
    ELSE IF s[1] = 32 THEN <<>>
    ELSE <<s[1]>> \o SplitFirst(Tail(s))

\* the characters str.strip() and int() treat as whitespace (ASCII)
IsSpace(c) == c \in {9, 10, 11, 12, 13, 32}

IsDigit(c) == c >= 48 /\ c <= 57

RECURSIVE LStrip(_)
LStrip(s) == IF s # <<>> /\ IsSpace(s[1]) THEN LStrip(Tail(s)) ELSE s

RECURSIVE RStrip(_)
RStrip(s) ==
    IF s # <<>> /\ IsSpace(s[Len(s)]) THEN RStrip(SubSeq(s, 1, Len(s) - 1))
    ELSE s

\* value of a string of digits and single underscores between digits
RECURSIVE DigitsValue(_, _)
DigitsValue(s, acc) ==
    IF s = <<>> THEN acc
    ELSE IF s[1] = 95 THEN DigitsValue(Tail(s), acc)
    ELSE DigitsValue(Tail(s), 10 * acc + (s[1] - 48))

\* digits, with single underscores allowed between two digits
DigitsOk(s) ==
    /\ s # <<>>
    /\ \A i \in DOMAIN s : IsDigit(s[i]) \/ s[i] = 95
    /\ IsDigit(s[1]) /\ IsDigit(s[Len(s)])
    /\ \A i \in 1..(Len(s) - 1) : ~(s[i] = 95 /\ s[i + 1] = 95)

\* Python's int(str): surrounding whitespace stripped, an optional sign, digits;
\* anything else raises ValueError
PyInt(s) ==
    LET t == RStrip(LStrip(s))
        signed == t # <<>> /\ t[1] \in {43, 45}
        body == IF signed THEN Tail(t) ELSE t
    IN  IF DigitsOk(body)
        THEN [ok |-> TRUE,
              v |-> IF signed /\ t[1] = 45 THEN 0 - DigitsValue(body, 0)
                    ELSE DigitsValue(body, 0)]
        ELSE [ok |-> FALSE, v |-> 0]

\* lambda x: int(x.split(" ")[0])
StockToInt(x) == PyInt(SplitFirst(x))

----------------------------------------------------------------------------
(* DataFrames *)

RangeIndex(n) == [i \in 1..n |-> i - 1]

DataFrame(cols, rows) ==
    [columns |-> cols, index |-> RangeIndex(Len(rows)), iname |-> "",
     rows |-> rows]

\* a name not yet bound to a table
Unset == [columns |-> <<>>, index |-> <<>>, iname |-> "unset", rows |-> <<>>]

\* the values of one column, in row order
Column(df, c) == [i \in DOMAIN df.rows |-> df.rows[i][c]]

\* df.reset_index(inplace=True, drop=True); df.index += 1;
\* df.index.name = index_name
NumberRows(df, index_name) ==
    [df EXCEPT !.index = [i \in DOMAIN df.rows |-> (i - 1) + 1],
               !.iname = index_name]

\* a faulty variant: the row labels are left starting at 0
create_index_unshifted(df, index_name) ==
    LET d == NumberRows(df, index_name)
    IN  IF index_name \in Range(d.columns)
        THEN [ok |-> FALSE, err |-> "ValueError", df |-> d]
        ELSE [ok |-> TRUE, err |-> "none",
              df |-> [columns |-> <<index_name>> \o d.columns,
                      index |-> RangeIndex(Len(d.rows)),
                      iname |-> "",
                      rows |-> [i \in DOMAIN d.rows |->
                                  (index_name :> (d.index[i] - 1)) @@ d.rows[i]]]]

\* create_index as a transformation of the table's value.  The last
\* reset_index() inserts the row labels as a first column named index_name and
\* raises ValueError when a column of that name is already there; the table
\* has by then been relabelled.
create_index(df, index_name) ==
    LET d == NumberRows(df, index_name)
    IN  IF index_name \in Range(d.columns)
        THEN [ok |-> FALSE, err |-> "ValueError", df |-> d]
        ELSE [ok |-> TRUE, err |-> "none",
              df |-> [columns |-> <<index_name>> \o d.columns,
                      index |-> RangeIndex(Len(d.rows)),
                      iname |-> "",
                      rows |-> [i \in DOMAIN d.rows |->
                                  (index_name :> d.index[i]) @@ d.rows[i]]]]

\* a faulty variant: the work is done on a copy, which is returned
create_index_call_copy(h, ref, index_name) ==
    LET r == create_index(h[ref], index_name)
        new == ref + 1
    IN  [heap |-> (new :> r.df) @@ h,
         ret |-> IF r.ok THEN new ELSE 0,
         raised |-> r.err]

\* create_index as a call on a table object: every step is inplace=True on
\* the object passed in, and that same object is returned (0: nothing is
\* returned, the call raised).
create_index_call(h, ref, index_name) ==
    LET r == create_index(h[ref], index_name)
    IN  [heap |-> [h EXCEPT ![ref] = r.df],
         ret |-> IF r.ok THEN ref ELSE 0,
         raised |-> r.err]

----------------------------------------------------------------------------
(* Missing values and column types *)

\* the missing value a left merge puts in the right-hand columns of an
\* unmatched row (an integer outside every key range)
NaN == -1

\* the missing value in a column of strings
NoStr == <<NaN>>

\* the columns that hold strings
StrColumns == {"cocktail_db_id", "drink_name", "glass_name", "location",
               "bar", "glass_type"}

NullOf(c) == IF c \in StrColumns THEN NoStr ELSE NaN

\* a float64 cell
Float(n) == [dtype |-> "float64", v |-> n]

\* an int64 cell as pandas.read_csv parses a column of whole numbers
Int64(n) == [dtype |-> "int64", v |-> n]

\* the position of x in the sequence s, 0 when absent
IndexOf(s, x) ==
    IF x \in Range(s) THEN CHOOSE i \in DOMAIN s : s[i] = x ELSE 0

\* the sequence s without the elements equal to x
RECURSIVE Without(_, _)
Without(s, x) ==
    IF s = <<>> THEN <<>>
    ELSE IF s[1] = x THEN Without(Tail(s), x)
    ELSE <<s[1]>> \o Without(Tail(s), x)

RECURSIVE Flatten(_)
Flatten(ss) == IF ss = <<>> THEN <<>> ELSE ss[1] \o Flatten(Tail(ss))

----------------------------------------------------------------------------
(* pandas operations used by the builders *)

\* pd.concat(list): the rows and the row labels of every table, in list
\* order; ValueError on an empty list
Concat(dfs) ==
    IF dfs = <<>>
    THEN [ok |-> FALSE, err |-> "ValueError", df |-> Unset]
    ELSE [ok |-> TRUE, err |-> "none",
          df |-> [columns |-> dfs[1].columns,
                  index |-> Flatten([k \in DOMAIN dfs |-> dfs[k].index]),
                  iname |-> "",
                  rows |-> Flatten([k \in DOMAIN dfs |-> dfs[k].rows])]]

\* df[cols].copy()
Project(df, cols) ==
    [df EXCEPT !.columns = cols,
               !.rows = [i \in DOMAIN df.rows |->
                           [c \in Range(cols) |-> df.rows[i][c]]]]

\* the rows of df (with their labels) at the positions keep, in order
RECURSIVE TakeRows(_, _, _)
TakeRows(df, i, keep) ==
    IF i > Len(df.rows) THEN <<>>
    ELSE (IF i \in keep THEN <<[label |-> df.index[i], row |-> df.rows[i]]>>
          ELSE <<>>) \o TakeRows(df, i + 1, keep)

FromLabelled(df, lr) ==
    [df EXCEPT !.index = [i \in DOMAIN lr |-> lr[i].label],
               !.rows = [i \in DOMAIN lr |-> lr[i].row]]

\* a faulty variant: nothing is dropped
DropDuplicates_none(df) == df

\* df.drop_duplicates(inplace=True): the first of equal rows is kept, with
\* its label
DropDuplicates(df) ==
    FromLabelled(df, TakeRows(df, 1,
        {i \in DOMAIN df.rows : \A j \in 1..(i - 1) : df.rows[j] # df.rows[i]}))

RECURSIVE InsertBy(_, _, _)
InsertBy(sorted, x, by) ==
    IF sorted = <<>> THEN <<x>>
    ELSE IF StrLess(x.row[by], sorted[1].row[by])
         THEN <<x>> \o sorted
         ELSE <<sorted[1]>> \o InsertBy(Tail(sorted), x, by)

RECURSIVE SortLabelled(_, _)
SortLabelled(lr, by) ==
    IF lr = <<>> THEN <<>>
    ELSE InsertBy(SortLabelled(SubSeq(lr, 1, Len(lr) - 1), by), lr[Len(lr)], by)

\* a faulty variant: nothing is sorted
SortValues_none(df, by) == df

\* df.sort_values(by=..., inplace=True): ascending order of the strings in
\* column by, rows keep their labels
SortValues(df, by) ==
    FromLabelled(df, SortLabelled(TakeRows(df, 1, DOMAIN df.rows), by))

\* the columns of the right table that a merge adds
MergeAdds(right, left_on, right_on) ==
    IF left_on = right_on THEN Without(right.columns, right_on)
    ELSE right.columns

\* the rows one left row gives in a left merge: one per matching right row,
\* in the right table's order, or one with missing values when none matches
MergeRow(lrow, right, left_on, right_on, adds) ==
    LET hits == {j \in DOMAIN right.rows :
                    right.rows[j][right_on] = lrow[left_on]}
        joined(j) == [c \in Range(adds) |-> right.rows[j][c]] @@ lrow
        F[j \in 0..Len(right.rows)] ==
            IF j = 0 THEN <<>>
            ELSE IF j \in hits THEN Append(F[j - 1], joined(j)) ELSE F[j - 1]
    IN  IF hits = {}
        THEN << [c \in Range(adds) |-> NullOf(c)] @@ lrow >>
        ELSE F[Len(right.rows)]

\* left.merge(right, left_on=..., right_on=..., how="left")
Merge(left, right, left_on, right_on) ==
    LET adds == MergeAdds(right, left_on, right_on)
    IN  DataFrame(left.columns \o adds,
                  Flatten([i \in DOMAIN left.rows |->
                             MergeRow(left.rows[i], right, left_on, right_on, adds)]))

\* df.rename(columns={old: new}, inplace=True)
Rename(df, old, new) ==
    [df EXCEPT !.columns = [k \in DOMAIN df.columns |->
                              IF df.columns[k] = old THEN new ELSE df.columns[k]],
               !.rows = [i \in DOMAIN df.rows |->
                           [c \in (DOMAIN df.rows[i] \ {old}) \cup {new} |->
                              IF c = new THEN df.rows[i][old] ELSE df.rows[i][c]]]]

\* df.drop(columns=[col], axis=1, inplace=True)
DropColumn(df, col) == Project(df, Without(df.columns, col))

----------------------------------------------------------------------------
(* Inputs: the catalog's responses and the CSV files *)

s_11 == <<49, 49>>
s_12 == <<49, 50>>
s_13 == <<49, 51>>
s_A == <<65>>
s_a == <<97>>
s_B == <<66>>
s_b == <<98>>
s_z == <<122>>
s_Cup == <<67, 117, 112>>
s_cup == <<99, 117, 112>>
s_Copper_Mug == <<67, 111, 112, 112, 101, 114, 32, 77, 117, 103>>
s_copper_mug == <<99, 111, 112, 112, 101, 114, 32, 109, 117, 103>>
s_coper_mug == <<99, 111, 112, 101, 114, 32, 109, 117, 103>>
s_budapest == <<98, 117, 100, 97, 112, 101, 115, 116>>
s_new_york == <<110, 101, 119, 32, 121, 111, 114, 107>>
s_london == <<108, 111, 110, 100, 111, 110>>
s_London == <<76, 111, 110, 100, 111, 110>>
\* "12 b", "3 b", "7 b", "x b"
s_12_b == <<49, 50, 32, 98>>
s_3_b == <<51, 32, 98>>
s_7_b == <<55, 32, 98>>
s_x_b == <<120, 32, 98>>

\* the datetime formats of the order files
FmtIso == "%Y-%m-%d %H:%M:%S"
FmtUs == "%m-%d-%Y %H:%M"

\* entries of a catalog response's "drinks" array
CatalogEntries ==
    { [idDrink |-> s_11, strDrink |-> s_B, strGlass |-> s_Cup],
      [idDrink |-> s_12, strDrink |-> s_a, strGlass |-> s_cup],
      [idDrink |-> s_13, strDrink |-> s_b, strGlass |-> s_Copper_Mug] }

\* data rows of the inventory CSV
InventoryRows ==
    { [bar |-> s_london, glass_type |-> s_cup, stock |-> s_12_b],
      [bar |-> s_London, glass_type |-> s_Cup, stock |-> s_3_b],
      [bar |-> s_budapest, glass_type |-> s_coper_mug, stock |-> s_7_b],
      [bar |-> s_new_york, glass_type |-> s_cup, stock |-> s_x_b] }

\* data rows of an order CSV; a datetime is the format it is written in and
\* the instant it denotes
OrderRows ==
    { [order_datetime |-> [fmt |-> FmtIso, t |-> 1], drink_name |-> s_A,
       order_amount |-> Int64(2)],
      [order_datetime |-> [fmt |-> FmtIso, t |-> 2], drink_name |-> s_z,
       order_amount |-> Int64(1)],
      [order_datetime |-> [fmt |-> FmtUs, t |-> 3], drink_name |-> s_B,
       order_amount |-> Float(5)] }

\* the sequences over S of length lo..hi
SeqsOf(S, lo, hi) == UNION {[1..n -> S] : n \in lo..hi}

----------------------------------------------------------------------------
(* The builders *)

\* string.ascii_lowercase: the letters are numbered 1..26
NumLetters == 26

\* get_drinks_data on a response: nothing for a null "drinks", else the three
\* fields of each entry, lowercased, under their new names
get_drinks_data(resp) ==
    IF resp.null THEN [none |-> TRUE, df |-> Unset]
    ELSE [none |-> FALSE,
          df |-> DataFrame(<<"cocktail_db_id", "drink_name", "glass_name">>,
                    [i \in DOMAIN resp.drinks |->
                       [cocktail_db_id |-> Lower(resp.drinks[i].idDrink),
                        drink_name |-> Lower(resp.drinks[i].strDrink),
                        glass_name |-> Lower(resp.drinks[i].strGlass)]])]

\* build_drinks_dataframe after its loop: concat, then create_index
build_drinks_dataframe(dfs) ==
    LET c == Concat(dfs)
    IN  IF c.ok THEN create_index(c.df, "drink_id") ELSE c

\* build_glasses_dataframe
build_glasses_dataframe(drinks) ==
    create_index(SortValues(DropDuplicates(Project(drinks, <<"glass_name">>)),
                            "glass_name"),
                 "glass_id")

\* build_bars_dataframe
build_bars_dataframe ==
    DataFrame(<<"bar_id", "location">>,
              << [bar_id |-> 1, location |-> s_budapest],
                 [bar_id |-> 2, location |-> s_new_york],
                 [bar_id |-> 3, location |-> s_london] >>)

\* lambda x: x.replace("coper mug", "copper mug")
FixGlassType(x) == Replace(x, s_coper_mug, s_copper_mug)

\* build_inventory_dataframe on the rows read from the CSV
build_inventory_dataframe(csv, bars, glasses) ==
    LET raw == DataFrame(<<"bar", "glass_type", "stock">>, csv)
        parsed == [i \in DOMAIN csv |-> StockToInt(csv[i].stock)]
        d1 == [raw EXCEPT !.rows = [i \in DOMAIN csv |->
                                      [csv[i] EXCEPT !.stock = parsed[i].v]]]
        d2 == [d1 EXCEPT !.rows = [i \in DOMAIN d1.rows |->
                                     [d1.rows[i] EXCEPT
                                        !.glass_type = FixGlassType(@)]]]
        d3 == Merge(d2, bars, "bar", "location")
        d4 == Merge(d3, glasses, "glass_type", "glass_name")
        d5 == Rename(d4, "stock", "number_in_stock")
    IN  IF \E i \in DOMAIN csv : ~parsed[i].ok
        THEN [ok |-> FALSE, err |-> "ValueError", df |-> Unset]
        ELSE create_index(d5, "inventory_id")

\* datetime.strptime(x, fmt).strftime("%Y-%m-%d %H:%M:%S")
Reformat(x) == [fmt |-> FmtIso, t |-> x.t]

\* astype(float) on one cell
AsFloat(x) == Float(x.v)

\* clean_raw_orders on the rows read from the CSV (its "index" column dropped)
clean_raw_orders(csv, datetime_format, location) ==
    LET raw == DataFrame(<<"order_datetime", "drink_name", "order_amount">>, csv)
        d3 == [raw EXCEPT !.rows = [i \in DOMAIN raw.rows |->
                                      [raw.rows[i] EXCEPT
                                         !.order_datetime = Reformat(@),
                                         !.drink_name = Lower(@),
                                         !.order_amount = AsFloat(@)]]]
        d4 == [d3 EXCEPT !.columns = @ \o <<"location">>,
                         !.rows = [i \in DOMAIN d3.rows |->
                                     ("location" :> location) @@ d3.rows[i]]]
    IN  IF \E i \in DOMAIN csv : csv[i].order_datetime.fmt # datetime_format
        THEN [ok |-> FALSE, err |-> "ValueError", df |-> Unset]
        ELSE [ok |-> TRUE, err |-> "none", df |-> d4]

\* build_orders_dataframe; drinks and bars are the globals it reads
build_orders_dataframe(budapest, london, ny, drinks, bars) ==
    LET c == Concat(<<budapest, london, ny>>)
        d1 == Merge(c.df, drinks, "drink_name", "drink_name")
        d2 == Merge(d1, bars, "location", "location")
    IN  create_index(d2, "order_id")

\* add_glass_id_to_drinks_dataframe
add_glass_id_to_drinks_dataframe(drinks, glasses) ==
    DropColumn(Merge(drinks, glasses, "glass_name", "glass_name"), "glass_name")

----------------------------------------------------------------------------
(* The Schema Enforcer *)

DRINKS_MAP == << <<"drink_id", "int">>, <<"drink_name", "str">>,
                 <<"glass_id", "int">>, <<"cocktail_db_id", "int">> >>
GLASSES_MAP == << <<"glass_id", "int">>, <<"glass_name", "str">> >>
BARS_MAP == << <<"bar_id", "int">>, <<"location", "str">> >>
INVENTORY_MAP == << <<"inventory_id", "int">>, <<"glass_id", "int">>,
                    <<"number_in_stock", "int">>, <<"bar_id", "int">> >>
ORDERS_MAP == << <<"order_id", "int">>, <<"order_datetime", "str">>,
                 <<"drink_id", "int">>, <<"bar_id", "int">>,
                 <<"order_amount", "float">> >>

\* Series.astype(datatype) on one cell of column c: int of a string parses
\* it, int of a missing value raises, str of a string is that string
AsType(c, v, datatype) ==
    CASE datatype = "int" ->
            IF c \in StrColumns THEN PyInt(v)
            ELSE [ok |-> v # NaN, v |-> v]
      [] datatype = "float" -> [ok |-> TRUE, v |-> AsFloat(v)]
      [] OTHER -> [ok |-> TRUE, v |-> v]

\* clean_dataframe: project to the map's columns, cast each in turn
clean_dataframe(df, data_map) ==
    LET columns == [k \in DOMAIN data_map |-> data_map[k][1]]
        cast(i, k) == AsType(columns[k], df.rows[i][columns[k]], data_map[k][2])
    IN  IF ~(Range(columns) \subseteq Range(df.columns))
        THEN [ok |-> FALSE, err |-> "KeyError", df |-> Unset]
        ELSE IF \E i \in DOMAIN df.rows, k \in DOMAIN columns : ~cast(i, k).ok
        THEN [ok |-> FALSE, err |-> "ValueError", df |-> Unset]
        ELSE [ok |-> TRUE, err |-> "none",
              df |-> [columns |-> columns, index |-> df.index, iname |-> df.iname,
                      rows |-> [i \in DOMAIN df.rows |->
                                  [c \in Range(columns) |->
                                     cast(i, IndexOf(columns, c)).v]]]]

----------------------------------------------------------------------------
(* The run: the statements under  if __name__ == "__main__"  *)

\* a faulty order of the statements
Main_ddl_early ==
    << "build_drinks", "build_glasses", "build_bars", "build_inventory",
       "clean_budapest", "clean_london", "clean_ny", "build_orders",
       "add_glass_id", "clean_drinks", "clean_orders", "clean_glasses",
       "clean_inventory", "read_sql", "execute_data_tables", "clean_bars",
       "load_glasses", "load_bars", "load_drinks", "load_inventory",
       "load_orders", "execute_poc_tables", "done" >>

\* the statements in program order
Main ==
    << "build_drinks", "build_glasses", "build_bars", "build_inventory",
       "clean_budapest", "clean_london", "clean_ny", "build_orders",
       "add_glass_id", "clean_drinks", "clean_orders", "clean_glasses",
       "clean_inventory", "clean_bars", "read_sql", "execute_data_tables",
       "load_glasses", "load_bars", "load_drinks", "load_inventory",
       "load_orders", "execute_poc_tables", "done" >>

\* a faulty variant: the pre-load script runs before the last table is cleaned
NextStep_ddl_early(p) == Main_ddl_early[IndexOf(Main_ddl_early, p) + 1]

\* the statement after p
NextStep(p) == Main[IndexOf(Main, p) + 1]

NoError == [type |-> "none", at |-> "none"]

\* statement p completed normally
Advance(p) ==
    /\ pc' = NextStep(p)
    /\ steps' = Append(steps, p)
    /\ error' = error

\* statement p raised an uncaught exception: the process ends
Abort(p, type) ==
    /\ pc' = "aborted"
    /\ steps' = steps
    /\ error' = [type |-> type, at |-> p]

\* order rows read so far from the order CSVs
OrdersRead == Len(df_budapest.rows) + Len(df_london.rows) + Len(df_ny.rows)

RunInit ==
    /\ pc = "build_drinks"
    /\ letter = 1
    /\ requests = <<>>
    /\ df_list = <<>>
    /\ df_drinks = Unset
    /\ df_glasses = Unset
    /\ df_bars = Unset
    /\ df_inventory = Unset
    /\ df_budapest = Unset
    /\ df_london = Unset
    /\ df_ny = Unset
    /\ df_orders = Unset
    /\ error = NoError
    /\ store = <<>>
    /\ steps = <<>>

\* the non-empty "drinks" arrays a response may hold when the rows got are
\* already received: the catalog lists a drink (an idDrink) once, and at most
\* MaxDrinks drinks in all
NewEntries(got) ==
    { d \in SeqsOf(CatalogEntries, 1, MaxDrinks - Len(got)) :
        /\ \A i, j \in DOMAIN d : d[i].idDrink = d[j].idDrink => i = j
        /\ \A i \in DOMAIN d, k \in DOMAIN got :
              Lower(d[i].idDrink) # got[k].cocktail_db_id }

\* one turn of build_drinks_dataframe's loop: the lookup for one letter
GetDrinksData ==
    /\ pc = "build_drinks"
    /\ letter <= NumLetters
    /\ \E resp \in {[null |-> TRUE, drinks |-> <<>>]} \cup
                   {[null |-> FALSE, drinks |-> d] :
                      d \in NewEntries(Flatten([k \in DOMAIN df_list |->
                                                  df_list[k].rows]))} :
          LET df == get_drinks_data(resp)
          IN  df_list' = IF df.none THEN df_list ELSE Append(df_list, df.df)
    /\ requests' = Append(requests, letter)
    /\ letter' = letter + 1
    /\ UNCHANGED unitVars
    /\ UNCHANGED <<pc, df_drinks, df_glasses, df_bars, df_inventory, df_budapest,
                   df_london, df_ny, df_orders, error, store, steps>>

\* the end of build_drinks_dataframe
BuildDrinks ==
    /\ pc = "build_drinks"
    /\ letter > NumLetters
    /\ LET r == build_drinks_dataframe(df_list)
       IN  IF r.ok
           THEN df_drinks' = r.df /\ Advance("build_drinks")
           ELSE df_drinks' = df_drinks /\ Abort("build_drinks", r.err)
    /\ UNCHANGED unitVars
    /\ UNCHANGED <<letter, requests, df_list, df_glasses, df_bars, df_inventory,
                   df_budapest, df_london, df_ny, df_orders, store>>

BuildGlasses ==
    /\ pc = "build_glasses"
    /\ LET r == build_glasses_dataframe(df_drinks)
       IN  IF r.ok
           THEN df_glasses' = r.df /\ Advance("build_glasses")
           ELSE df_glasses' = df_glasses /\ Abort("build_glasses", r.err)
    /\ UNCHANGED unitVars
    /\ UNCHANGED <<letter, requests, df_list, df_drinks, df_bars, df_inventory,
                   df_budapest, df_london, df_ny, df_orders, store>>

BuildBars ==
    /\ pc = "build_bars"
    /\ df_bars' = build_bars_dataframe
    /\ Advance("build_bars")
    /\ UNCHANGED unitVars
    /\ UNCHANGED <<letter, requests, df_list, df_drinks, df_glasses, df_inventory,
                   df_budapest, df_london, df_ny, df_orders, store>>

BuildInventory ==
    /\ pc = "build_inventory"
    /\ \E csv \in SeqsOf(InventoryRows, 0, MaxInv) :
          LET r == build_inventory_dataframe(csv, df_bars, df_glasses)
          IN  IF r.ok
              THEN df_inventory' = r.df /\ Advance("build_inventory")
              ELSE df_inventory' = df_inventory /\ Abort("build_inventory", r.err)
    /\ UNCHANGED unitVars
    /\ UNCHANGED <<letter, requests, df_list, df_drinks, df_glasses, df_bars,
                   df_budapest, df_london, df_ny, df_orders, store>>

CleanBudapest ==
    /\ pc = "clean_budapest"
    /\ \E csv \in SeqsOf(OrderRows, 0, MaxOrd) :
          LET r == clean_raw_orders(csv, FmtIso, s_budapest)
          IN  IF r.ok
              THEN df_budapest' = r.df /\ Advance("clean_budapest")
              ELSE df_budapest' = df_budapest /\ Abort("clean_budapest", r.err)
    /\ UNCHANGED unitVars
    /\ UNCHANGED <<letter, requests, df_list, df_drinks, df_glasses, df_bars,
                   df_inventory, df_london, df_ny, df_orders, store>>

CleanLondon ==
    /\ pc = "clean_london"
    /\ \E csv \in SeqsOf(OrderRows, 0, MaxOrd - Len(df_budapest.rows)) :
          LET r == clean_raw_orders(csv, FmtIso, s_london)
          IN  IF r.ok
              THEN df_london' = r.df /\ Advance("clean_london")
              ELSE df_london' = df_london /\ Abort("clean_london", r.err)
    /\ UNCHANGED unitVars
    /\ UNCHANGED <<letter, requests, df_list, df_drinks, df_glasses, df_bars,
                   df_inventory, df_budapest, df_ny, df_orders, store>>

CleanNy ==
    /\ pc = "clean_ny"
    /\ \E csv \in SeqsOf(OrderRows, 0,
                         MaxOrd - Len(df_budapest.rows) - Len(df_london.rows)) :
          LET r == clean_raw_orders(csv, FmtUs, s_new_york)
          IN  IF r.ok
              THEN df_ny' = r.df /\ Advance("clean_ny")
              ELSE df_ny' = df_ny /\ Abort("clean_ny", r.err)
    /\ UNCHANGED unitVars
    /\ UNCHANGED <<letter, requests, df_list, df_drinks, df_glasses, df_bars,
                   df_inventory, df_budapest, df_london, df_orders, store>>

BuildOrders ==
    /\ pc = "build_orders"
    /\ LET r == build_orders_dataframe(df_budapest, df_london, df_ny,
                                       df_drinks, df_bars)
       IN  IF r.ok
           THEN df_orders' = r.df /\ Advance("build_orders")
           ELSE df_orders' = df_orders /\ Abort("build_orders", r.err)
    /\ UNCHANGED unitVars
    /\ UNCHANGED <<letter, requests, df_list, df_drinks, df_glasses, df_bars,
                   df_inventory, df_budapest, df_london, df_ny, store>>

AddGlassId ==
    /\ pc = "add_glass_id"
    /\ df_drinks' = add_glass_id_to_drinks_dataframe(df_drinks, df_glasses)
    /\ Advance("add_glass_id")
    /\ UNCHANGED unitVars
    /\ UNCHANGED <<letter, requests, df_list, df_glasses, df_bars, df_inventory,
                   df_budapest, df_london, df_ny, df_orders, store>>

CleanDrinks ==
    /\ pc = "clean_drinks"
    /\ LET r == clean_dataframe(df_drinks, DRINKS_MAP)
       IN  IF r.ok
           THEN df_drinks' = r.df /\ Advance("clean_drinks")
           ELSE df_drinks' = df_drinks /\ Abort("clean_drinks", r.err)
    /\ UNCHANGED unitVars
    /\ UNCHANGED <<letter, requests, df_list, df_glasses, df_bars, df_inventory,
                   df_budapest, df_london, df_ny, df_orders, store>>

CleanOrders ==
    /\ pc = "clean_orders"
    /\ LET r == clean_dataframe(df_orders, ORDERS_MAP)
       IN  IF r.ok
           THEN df_orders' = r.df /\ Advance("clean_orders")
           ELSE df_orders' = df_orders /\ Abort("clean_orders", r.err)
    /\ UNCHANGED unitVars
    /\ UNCHANGED <<letter, requests, df_list, df_drinks, df_glasses, df_bars,
                   df_inventory, df_budapest, df_london, df_ny, store>>

CleanGlasses ==
    /\ pc = "clean_glasses"
    /\ LET r == clean_dataframe(df_glasses, GLASSES_MAP)
       IN  IF r.ok
           THEN df_glasses' = r.df /\ Advance("clean_glasses")
           ELSE df_glasses' = df_glasses /\ Abort("clean_glasses", r.err)
    /\ UNCHANGED unitVars
    /\ UNCHANGED <<letter, requests, df_list, df_drinks, df_bars, df_inventory,
                   df_budapest, df_london, df_ny, df_orders, store>>

CleanInventory ==
    /\ pc = "clean_inventory"
    /\ LET r == clean_dataframe(df_inventory, INVENTORY_MAP)
       IN  IF r.ok
           THEN df_inventory' = r.df /\ Advance("clean_inventory")
           ELSE df_inventory' = df_inventory /\ Abort("clean_inventory", r.err)
    /\ UNCHANGED unitVars
    /\ UNCHANGED <<letter, requests, df_list, df_drinks, df_glasses, df_bars,
                   df_budapest, df_london, df_ny, df_orders, store>>

CleanBars ==
    /\ pc = "clean_bars"
    /\ LET r == clean_dataframe(df_bars, BARS_MAP)
       IN  IF r.ok
           THEN df_bars' = r.df /\ Advance("clean_bars")
           ELSE df_bars' = df_bars /\ Abort("clean_bars", r.err)
    /\ UNCHANGED unitVars
    /\ UNCHANGED <<letter, requests, df_list, df_drinks, df_glasses, df_inventory,
                   df_budapest, df_london, df_ny, df_orders, store>>

\* open("data_tables.sql"), open("poc_tables.sql"): a missing file raises
ReadSql ==
    /\ pc = "read_sql"
    /\ \E found \in BOOLEAN :
          IF found THEN Advance("read_sql")
          ELSE Abort("read_sql", "FileNotFoundError")
    /\ UNCHANGED unitVars
    /\ UNCHANGED <<letter, requests, df_list, df_drinks, df_glasses, df_bars,
                   df_inventory, df_budapest, df_london, df_ny, df_orders, store>>

\* c.executescript(query)
ExecuteScript(p, script) ==
    /\ pc = p
    /\ store' = Append(store, [op |-> "executescript", target |-> script,
                               rows |-> <<>>])
    /\ Advance(p)
    /\ UNCHANGED unitVars
    /\ UNCHANGED <<letter, requests, df_list, df_drinks, df_glasses, df_bars,
                   df_inventory, df_budapest, df_london, df_ny, df_orders>>

\* df.to_sql(table, connection, if_exists="append", index=False)
ToSql(p, df, table) ==
    /\ pc = p
    /\ store' = Append(store, [op |-> "append", target |-> table,
                               rows |-> df.rows])
    /\ Advance(p)
    /\ UNCHANGED unitVars
    /\ UNCHANGED <<letter, requests, df_list, df_drinks, df_glasses, df_bars,
                   df_inventory, df_budapest, df_london, df_ny, df_orders>>

ExecuteDataTables == ExecuteScript("execute_data_tables", "data_tables.sql")
LoadGlasses == ToSql("load_glasses", df_glasses, "glasses")
LoadBars == ToSql("load_bars", df_bars, "bars")
LoadDrinks == ToSql("load_drinks", df_drinks, "drinks")
LoadInventory == ToSql("load_inventory", df_inventory, "inventory")
LoadOrders == ToSql("load_orders", df_orders, "orders")
ExecutePocTables == ExecuteScript("execute_poc_tables", "poc_tables.sql")

Next ==
    \/ GetDrinksData
    \/ BuildDrinks
    \/ BuildGlasses
    \/ BuildBars
    \/ BuildInventory
    \/ CleanBudapest
    \/ CleanLondon
    \/ CleanNy
    \/ BuildOrders
    \/ AddGlassId
    \/ CleanDrinks
    \/ CleanOrders
    \/ CleanGlasses
    \/ CleanInventory
    \/ CleanBars
    \/ ReadSql
    \/ ExecuteDataTables
    \/ LoadGlasses
    \/ LoadBars
    \/ LoadDrinks
    \/ LoadInventory
    \/ LoadOrders
    \/ ExecutePocTables

Init == RunInit /\ heap = <<>> /\ u = [phase |-> "idle"]

Spec == Init /\ [][Next]_vars

----------------------------------------------------------------------------
(* create_index on its own: any table, any prior row labels, any key name *)

\* the run is not started
RunIdle ==
    /\ pc = "idle"
    /\ letter = 1
    /\ requests = <<>>
    /\ df_list = <<>>
    /\ df_drinks = Unset
    /\ df_glasses = Unset
    /\ df_bars = Unset
    /\ df_inventory = Unset
    /\ df_budapest = Unset
    /\ df_london = Unset
    /\ df_ny = Unset
    /\ df_orders = Unset
    /\ error = NoError
    /\ store = <<>>
    /\ steps = <<>>

\* tables of at most MaxIdxRows rows with one or two columns and arbitrary
\* (also repeated) row labels
IndexTables ==
    { [columns |-> cols, index |-> idx, iname |-> "",
       rows |-> [i \in DOMAIN vals |-> [c \in Range(cols) |->
                                          IF c = "v" THEN vals[i] ELSE 9]]] :
        cols \in {<<"v">>, <<"v", "drink_id">>},
        <<idx, vals>> \in UNION {[1..n -> {0, 4}] \X [1..n -> {5, 7}] :
                                    n \in 0..MaxIdxRows} }

IndexInit ==
    /\ RunIdle
    /\ \E df \in IndexTables, name \in {"drink_id", "glass_id"} :
          /\ heap = (1 :> df)
          /\ u = [phase |-> "ready", arg |-> 1, index_name |-> name,
                  before |-> df, ret |-> 0, raised |-> "none"]

\* the caller's  create_index(df, index_name)
CallCreateIndex ==
    /\ u.phase = "ready"
    /\ LET r == create_index_call(heap, u.arg, u.index_name)
       IN  /\ heap' = r.heap
           /\ u' = [u EXCEPT !.phase = "returned", !.ret = r.ret,
                             !.raised = r.raised]
    /\ UNCHANGED runVars

IndexNext == CallCreateIndex

SpecIndex == IndexInit /\ [][IndexNext]_vars

----------------------------------------------------------------------------
(* build_glasses_dataframe on its own, on table objects *)

s_Jar == <<74, 97, 114>>
s_jar == <<106, 97, 114>>

\* catalog entries with a wider choice of glasses
GlassEntries ==
    { [idDrink |-> s_11, strDrink |-> s_A, strGlass |-> g] :
        g \in {s_Cup, s_cup, s_Copper_Mug, s_jar, s_Jar} }

\* build_glasses_dataframe as a call on a table object: the projection is
\* copied into a new object, which is deduplicated, sorted and indexed in place
build_glasses_call(h, ref) ==
    LET new == ref + 1
        d == SortValues(DropDuplicates(Project(h[ref], <<"glass_name">>)),
                        "glass_name")
    IN  create_index_call((new :> d) @@ h, new, "glass_id")

GlassesInit ==
    /\ RunIdle
    /\ \E entries \in SeqsOf(GlassEntries, 1, MaxDrinks + 1) :
          LET got == get_drinks_data([null |-> FALSE, drinks |-> entries])
              drinks == build_drinks_dataframe(<<got.df>>).df
          IN  /\ heap = (1 :> drinks)
              /\ u = [phase |-> "ready", arg |-> 1, entries |-> entries,
                      before |-> drinks, ret |-> 0, raised |-> "none"]

\* the caller's  build_glasses_dataframe(df_drinks)
CallBuildGlasses ==
    /\ u.phase = "ready"
    /\ LET r == build_glasses_call(heap, u.arg)
       IN  /\ heap' = r.heap
           /\ u' = [u EXCEPT !.phase = "returned", !.ret = r.ret,
                             !.raised = r.raised]
    /\ UNCHANGED runVars

GlassesNext == CallBuildGlasses

SpecGlasses == GlassesInit /\ [][GlassesNext]_vars

----------------------------------------------------------------------------
(* The stock column of build_inventory_dataframe on its own *)

\* '1', '2', space, tab, 'b'
StockAlphabet == {49, 50, 32, 9, 98}

StockInit ==
    /\ RunIdle
    /\ heap = <<>>
    /\ \E x \in SeqsOf(StockAlphabet, 0, MaxStockLen) :
          u = [phase |-> "ready", x |-> x, ret |-> 0, raised |-> "none"]

\* build_inventory_dataframe on a CSV of one row whose stock is u.x
CallBuildInventory ==
    /\ u.phase = "ready"
    /\ LET bars == build_bars_dataframe
           glasses == DataFrame(<<"glass_id", "glass_name">>,
                                << [glass_id |-> 1, glass_name |-> s_cup] >>)
           r == build_inventory_dataframe(
                    << [bar |-> s_london, glass_type |-> s_cup, stock |-> u.x] >>,
                    bars, glasses)
       IN  u' = [u EXCEPT !.phase = "returned",
                          !.ret = IF r.ok THEN r.df.rows[1].number_in_stock ELSE 0,
                          !.raised = r.err]
    /\ UNCHANGED <<heap, runVars>>

StockNext == CallBuildInventory

SpecStock == StockInit /\ [][StockNext]_vars

----------------------------------------------------------------------------
(* Properties *)

Done(p) == p \in Range(steps)

\* the sequence 1, 2, ..., n
OneTo(n) == [i \in 1..n |-> i]

\* the table r is the table b with a new first column name holding 1..N, the
\* rows and the other columns being those of b, in order
Indexed(r, b, name) ==
    /\ r.columns = <<name>> \o b.columns
    /\ Len(r.rows) = Len(b.rows)
    /\ Column(r, name) = OneTo(Len(b.rows))
    /\ \A i \in DOMAIN b.rows : \A c \in Range(b.columns) :
          r.rows[i][c] = b.rows[i][c]

\* C1 as stated: for any table of N >= 0 rows, whatever its row labels, and
\* any key-column name, create_index returns the same rows in the same order
\* with a new first column of that name holding exactly 1..N.
C1_AnyName ==
    u.phase = "returned" =>
        /\ u.raised = "none"
        /\ u.ret # 0
        /\ Indexed(heap[u.ret], u.before, u.index_name)

\* C1 amended: the same, for a key-column name that is not already a column
\* of the table.
C1_FreshName ==
    (u.phase = "returned" /\ u.index_name \notin Range(u.before.columns)) =>
        /\ u.raised = "none"
        /\ u.ret # 0
        /\ Indexed(heap[u.ret], u.before, u.index_name)

\* a two-row table with labels other than 0, 1 was indexed under a fresh name
C1_Witness ==
    /\ u.phase = "returned"
    /\ u.raised = "none"
    /\ u.index_name \notin Range(u.before.columns)
    /\ Len(u.before.rows) = 2
    /\ u.before.index = <<4, 4>>
    /\ Column(heap[u.ret], u.index_name) = <<1, 2>>

\* C6 as stated: after create_index returns, the table object the caller
\* passed in has the same columns, the same row labels and the same rows as
\* before the call.
C6_CallerUntouched ==
    (u.phase = "returned" /\ u.raised = "none") => heap[u.arg] = u.before

\* C6 amended: create_index works in place and returns the very object it was
\* given: after it returns, the caller's table is the returned table, with the
\* new key column first and row labels 0..N-1; the values of its other columns
\* and the row order are unchanged.
C6_InPlace ==
    (u.phase = "returned" /\ u.raised = "none") =>
        /\ u.ret = u.arg
        /\ Indexed(heap[u.arg], u.before, u.index_name)
        /\ heap[u.arg].index = RangeIndex(Len(u.before.rows))

\* the caller's table of one row, labelled 4, came back with the key column
C6_Witness ==
    /\ u.phase = "returned"
    /\ u.raised = "none"
    /\ u.before.index = <<4>>
    /\ heap[u.arg] # u.before
    /\ u.index_name \in Range(heap[u.arg].columns)

\* the distinct lowercased glass names of the catalog entries es
GlassNamesOf(es) == {Lower(es[i].strGlass) : i \in DOMAIN es}

\* s is in strictly ascending lexicographic order
Ascending(s) == \A i \in 1..(Len(s) - 1) : StrLess(s[i], s[i + 1])

\* C7: build_glasses_dataframe returns one row per distinct glass_name of
\* drinks (names differing only in case in the catalog count as one), in
\* ascending lexicographic order, glass_id being the 1-based rank; the drinks
\* table it was given is unchanged.
C7_Glasses ==
    u.phase = "returned" =>
        /\ u.raised = "none"
        /\ heap[u.ret].columns = <<"glass_id", "glass_name">>
        /\ Range(Column(heap[u.ret], "glass_name")) = GlassNamesOf(u.entries)
        /\ Len(heap[u.ret].rows) = Cardinality(GlassNamesOf(u.entries))
        /\ Ascending(Column(heap[u.ret], "glass_name"))
        /\ Column(heap[u.ret], "glass_id") = OneTo(Len(heap[u.ret].rows))
        /\ heap[u.arg] = u.before

\* three entries, two of whose glasses differ only in case and come before a
\* glass that sorts first, gave the two rows "copper mug", "cup"
C7_Witness ==
    /\ u.phase = "returned"
    /\ Len(u.entries) = 3
    /\ u.entries[1].strGlass = s_Cup
    /\ u.entries[2].strGlass = s_cup
    /\ u.entries[3].strGlass = s_Copper_Mug
    /\ Column(heap[u.ret], "glass_name") = <<s_copper_mug, s_cup>>
    /\ Column(heap[u.ret], "glass_id") = <<1, 2>>

\* the catalog rows received so far
CatalogRows == Flatten([k \in DOMAIN df_list |-> df_list[k].rows])

\* C2: after a complete build (before load) each of the five tables has its
\* surrogate key equal to 1..N in row order, hence distinct and contiguous;
\* and from the moment drink_id is assigned, through the join that adds
\* glass_id, drinks has one row per catalog entry with drink_id 1..N.
C2_SurrogateKeys ==
    /\ Done("build_drinks") =>
          /\ Len(df_drinks.rows) = Len(CatalogRows)
          /\ Column(df_drinks, "drink_id") = OneTo(Len(CatalogRows))
    /\ Done("clean_bars") =>
          /\ Column(df_glasses, "glass_id") = OneTo(Len(df_glasses.rows))
          /\ Column(df_bars, "bar_id") = OneTo(Len(df_bars.rows))
          /\ Column(df_inventory, "inventory_id") = OneTo(Len(df_inventory.rows))
          /\ Column(df_orders, "order_id") = OneTo(Len(df_orders.rows))

\* a complete build in which two drinks share a glass and inventory and
\* orders are not empty
C2_Witness ==
    /\ pc = "read_sql"
    /\ Len(df_drinks.rows) = 2
    /\ df_drinks.rows[1].glass_id = df_drinks.rows[2].glass_id
    /\ Len(df_inventory.rows) = 1
    /\ Len(df_orders.rows) = 1

\* C3: the orders table built by build_orders_dataframe has exactly as many
\* rows as the three cleaned order sets together.
C3_RowCount ==
    (Done("build_orders") /\ ~Done("clean_orders")) =>
        Len(df_orders.rows) = OrdersRead

\* C4: an order row whose drink name matches no drink is kept with a null
\* drink_id and no step raises because of it: the Schema Enforcer accepts the
\* orders table.
C4_UnmatchedAccepted ==
    (/\ Done("build_orders")
     /\ "drink_id" \in Range(df_orders.columns)
     /\ \E i \in DOMAIN df_orders.rows : df_orders.rows[i].drink_id = NaN)
        => error.at # "clean_orders"

\* a and b differ at most in letter case
SameButCase(a, b) == Lower(a) = Lower(b)

\* C5: every name-based join matches names that differ only in letter case:
\* an inventory row gets the bar_id of the bar and the glass_id of the glass
\* whose name equals its own up to case, an order row the drink_id of a drink
\* and the bar_id of the bar so named.
C5_CaseInsensitiveJoins ==
    /\ (Done("build_inventory") /\ ~Done("clean_inventory")) =>
          \A i \in DOMAIN df_inventory.rows :
             LET r == df_inventory.rows[i]
             IN  /\ \A k \in DOMAIN df_bars.rows :
                       SameButCase(r.bar, df_bars.rows[k].location)
                          => r.bar_id = df_bars.rows[k].bar_id
                 /\ \A k \in DOMAIN df_glasses.rows :
                       SameButCase(r.glass_type, df_glasses.rows[k].glass_name)
                          => r.glass_id = df_glasses.rows[k].glass_id
    /\ (Done("build_orders") /\ ~Done("clean_orders")) =>
          \A i \in DOMAIN df_orders.rows :
             LET r == df_orders.rows[i]
             IN  /\ \A k \in DOMAIN df_bars.rows :
                       SameButCase(r.location, df_bars.rows[k].location)
                          => r.bar_id = df_bars.rows[k].bar_id
                 /\ (\E k \in DOMAIN CatalogRows :
                        SameButCase(r.drink_name, CatalogRows[k].drink_name))
                       => r.drink_id # NaN

\* C8: one lookup per letter, in alphabetical order; a letter with a null
\* "drinks" adds nothing and raises nothing, whichever letters are empty, all
\* of them included; drinks is the concatenation of the other letters' rows in
\* letter order with drink_id 1..N.
C8_EmptyLetters ==
    /\ requests = OneTo(Len(requests))
    /\ error.at # "build_drinks"
    /\ (Done("build_drinks") /\ ~Done("add_glass_id")) =>
          /\ requests = OneTo(NumLetters)
          /\ Indexed(df_drinks,
                     DataFrame(<<"cocktail_db_id", "drink_name", "glass_name">>,
                               CatalogRows),
                     "drink_id")

\* space or tab
IsBlank(c) == c \in {32, 9}

RECURSIVE SkipBlanks(_)
SkipBlanks(s) == IF s # <<>> /\ IsBlank(s[1]) THEN SkipBlanks(Tail(s)) ELSE s

RECURSIVE FirstToken(_)
FirstToken(s) ==
    IF s = <<>> \/ IsBlank(s[1]) THEN <<>>
    ELSE <<s[1]>> \o FirstToken(Tail(s))

AllDigits(s) == s # <<>> /\ \A i \in DOMAIN s : IsDigit(s[i])

\* x is an integer token, whitespace, a unit, with possibly whitespace ahead
StockForm(x) ==
    LET body == SkipBlanks(x)
        tok == FirstToken(body)
        after == SubSeq(body, Len(tok) + 1, Len(body))
        unit == SkipBlanks(after)
    IN  /\ AllDigits(tok)
        /\ after # unit
        /\ unit # <<>>
        /\ \A i \in DOMAIN unit : ~IsBlank(unit[i]) /\ ~IsDigit(unit[i])

\* C9: number_in_stock is the integer value of the first whitespace-delimited
\* token: an integer, whitespace (spaces or tabs, possibly also leading) and a
\* unit give that integer; a first token that is no integer raises.
C9_StockParsed ==
    u.phase = "returned" =>
        /\ StockForm(u.x) =>
              /\ u.raised = "none"
              /\ u.ret = DigitsValue(FirstToken(SkipBlanks(u.x)), 0)
        /\ ~AllDigits(FirstToken(SkipBlanks(u.x))) => u.raised # "none"

\* the place of step p among the completed steps, 0 when it has not completed
Pos(p) == IndexOf(steps, p)

\* b has completed only if a completed before it
Before(a, b) == Pos(b) > 0 => (Pos(a) > 0 /\ Pos(a) < Pos(b))

\* s is an initial part of t
IsPrefix(s, t) == Len(s) <= Len(t) /\ s = SubSeq(t, 1, Len(s))

C10_Builds == <<"build_drinks", "build_glasses", "build_bars",
                "build_inventory", "build_orders">>

C10_Cleans == {"clean_drinks", "clean_orders", "clean_glasses",
               "clean_inventory", "clean_bars"}

C10_Writes == << <<"executescript", "data_tables.sql">>, <<"append", "glasses">>,
                 <<"append", "bars">>, <<"append", "drinks">>,
                 <<"append", "inventory">>, <<"append", "orders">>,
                 <<"executescript", "poc_tables.sql">> >>

\* C10: the builders run in the order drinks, glasses, bars, inventory,
\* orders, then the Schema Enforcer on all five tables, then the pre-load
\* script, the appends glasses, bars, drinks, inventory, orders, each once, and
\* the post-load script; nothing is written to the store before all five
\* tables passed the Schema Enforcer, so a run aborted in a builder or in the
\* Schema Enforcer leaves the store untouched.
C10_Order ==
    /\ \A i, j \in DOMAIN steps : steps[i] = steps[j] => i = j
    /\ \A k \in 1..(Len(C10_Builds) - 1) : Before(C10_Builds[k], C10_Builds[k + 1])
    /\ \A c \in C10_Cleans : Before("build_orders", c) /\ Before("add_glass_id", c)
    /\ IsPrefix([k \in DOMAIN store |-> <<store[k].op, store[k].target>>],
                C10_Writes)
    /\ store # <<>> => \A c \in C10_Cleans : Done(c)
    /\ (pc = "aborted" /\ error.at \in Range(C10_Builds) \cup C10_Cleans
            \cup {"clean_budapest", "clean_london", "clean_ny"}) => store = <<>>
    /\ pc = "done" => Len(store) = Len(C10_Writes)

\* a run that went through to the end and wrote all seven things
C10_Witness ==
    /\ pc = "done"
    /\ Len(store) = 7
    /\ Len(store[4].rows) = 2

====
